---- MODULE Spec2Model ----
(***************************************************************************)
(* SloppyScaling.py: ScalingTheory, Data, Model and CompositeModel.        *)
(*                                                                         *)
(* Strings are sequences of one-character strings, so that split(",") and  *)
(* the "," + param concatenation are computed, not assumed.  Identifiers   *)
(* are single letters.  Numbers are integers; a quotient is kept as a      *)
(* numerator with a denominator.  A numeric value is a record              *)
(*   [kind |-> "scalar" | "array" | <exception name>, v |-> <<ints>>,      *)
(*    den |-> common denominator]                                          *)
(* and arithmetic follows numpy broadcasting (parameter vectors are numpy  *)
(* arrays, as scipy.optimize.leastsq passes them).                         *)
(***************************************************************************)
EXTENDS Integers, Sequences, FiniteSets, TLC

VARIABLES
    theory,      \* ScalingTheory objects: the fields InstallModel rebinds
    composite,   \* CompositeModel objects: Models dict and CompositeTheory
    hashOrder,   \* the interpreter's iteration order of the Models dict keys
    installLog,  \* history: the InstallModel calls made, in order
    stdout,      \* what the last InstallModel call printed
    data,        \* Data objects
    call         \* the last ScalingTheory / Model call made and its outcome

vars == <<theory, composite, hashOrder, installLog, stdout, data, call>>

\* ---------------------------------------------------------------- bounds
MaxInstalls == 3      \* InstallModel calls in one behaviour
MaxP == 2             \* entries of a parameter vector are drawn from 1..MaxP
MaxCurves == 2        \* InstallCurve calls in one behaviour
MaxSkip == 2          \* initialSkip is drawn from 0..MaxSkip
MaxArgLen == 3        \* longest parameterValues passed to a ScalingTheory call
RecursionLimit == 3   \* interpreter's limit on nested calls (sys.getrecursionlimit)

\* ------------------------------------------------------- program constants
xStart == 1           \* NormIntegerSum default
xEnd == 1024          \* NormIntegerSum default

\* ---------------------------------------------------------------- strings
IdentChars == {"a", "b", "c", "R", "X", "Y", "U"}

RECURSIVE split(_)
\* str.split(","): the pieces between the commas, kept as they are
split(s) ==
    IF \A i \in 1..Len(s) : s[i] # ","
    THEN <<s>>
    ELSE LET i == CHOOSE k \in 1..Len(s) :
                      s[k] = "," /\ \A j \in 1..(k - 1) : s[j] # ","
         IN  <<SubSeq(s, 1, i - 1)>> \o split(SubSeq(s, i + 1, Len(s)))

RECURSIVE strip(_)
\* the piece without its leading and trailing blanks, as the tokenizer reads it
strip(s) ==
    IF s = <<>> THEN s
    ELSE IF Head(s) = " " THEN strip(Tail(s))
    ELSE IF s[Len(s)] = " " THEN strip(SubSeq(s, 1, Len(s) - 1))
    ELSE s

\* list.index / "in" on a list of names
IndexOf(list, x) == CHOOSE i \in 1..Len(list) : list[i] = x /\ \A j \in 1..(i - 1) : list[j] # x
InList(list, x) == \E i \in 1..Len(list) : list[i] = x
ToSet(list) == {list[i] : i \in 1..Len(list)}

\* ----------------------------------------------------------------- values
Scalar(n) == [kind |-> "scalar", v |-> <<n>>, den |-> 1]
Array(s) == [kind |-> "array", v |-> s, den |-> 1]
Raise(e) == [kind |-> e, v |-> <<>>, den |-> 1]
IsErr(x) == x.kind \notin {"scalar", "array"}

\* numpy broadcasting of two operands' shapes: "scalar", a length, or -1 (error)
Shape(u, w) ==
    IF u.kind = "scalar" /\ w.kind = "scalar" THEN 1
    ELSE IF u.kind = "scalar" THEN Len(w.v)
    ELSE IF w.kind = "scalar" THEN Len(u.v)
    ELSE IF Len(u.v) = Len(w.v) THEN Len(u.v)
    ELSE IF Len(u.v) = 1 THEN Len(w.v)
    ELSE IF Len(w.v) = 1 THEN Len(u.v)
    ELSE -1
At(u, i) == IF u.kind = "scalar" \/ Len(u.v) = 1 THEN u.v[1] ELSE u.v[i]
Kind(u, w) == IF u.kind = "scalar" /\ w.kind = "scalar" THEN "scalar" ELSE "array"

\* u + w and u * w on integer operands (den = 1)
Add(u, w) ==
    IF IsErr(u) THEN u ELSE IF IsErr(w) THEN w
    ELSE IF Shape(u, w) < 0 THEN Raise("ValueError")
    ELSE [kind |-> Kind(u, w), den |-> 1,
          v |-> [i \in 1..Shape(u, w) |-> At(u, i) + At(w, i)]]
Mul(u, w) ==
    IF IsErr(u) THEN u ELSE IF IsErr(w) THEN w
    ELSE IF Shape(u, w) < 0 THEN Raise("ValueError")
    ELSE [kind |-> Kind(u, w), den |-> 1,
          v |-> [i \in 1..Shape(u, w) |-> At(u, i) * At(w, i)]]

RECURSIVE SumRange(_, _, _)
\* s[lo] + ... + s[hi], by halves
SumRange(s, lo, hi) ==
    IF lo > hi THEN 0
    ELSE IF lo = hi THEN s[lo]
    ELSE SumRange(s, lo, (lo + hi) \div 2) + SumRange(s, (lo + hi) \div 2 + 1, hi)
\* sum(s)
SumSeq(s) == SumRange(s, 1, Len(s))

\* --------------------------------------------------- exec(names + " = v")
NoEnv == [x \in {} |-> Scalar(0)]
Assign(env, id, val) == [x \in DOMAIN env \cup {id} |-> IF x = id THEN val ELSE env[x]]

RECURSIVE Unpack(_, _, _, _)
\* targets[k..] = elements k.. of the value, left to right (a later target of
\* the same name overwrites an earlier one)
Unpack(env, targets, val, k) ==
    IF k > Len(targets) THEN env
    ELSE Unpack(Assign(env, strip(targets[k])[1], Scalar(val.v[k])), targets, val, k + 1)

\* exec(names + " = value") in the locals `env`: [exc |-> "" or the exception,
\* env |-> the locals after it].  One target takes the whole value; several
\* targets unpack it and need exactly as many elements.
Exec(env, names, val) ==
    LET targets == split(names)
        isIdent(t) == Len(strip(t)) = 1 /\ strip(t)[1] \in IdentChars
    IN  IF \E k \in 1..Len(targets) : ~isIdent(targets[k])
        THEN [exc |-> "SyntaxError", env |-> env]
        ELSE IF Len(targets) = 1
        THEN [exc |-> "", env |-> Assign(env, strip(targets[1])[1], val)]
        ELSE IF val.kind = "scalar"
        THEN [exc |-> "TypeError", env |-> env]
        ELSE IF Len(val.v) # Len(targets)
        THEN [exc |-> "ValueError", env |-> env]
        ELSE [exc |-> "", env |-> Unpack(env, targets, val, 1)]

\* ------------------------------------------- exec("Y = " + formula)
\* A formula is a sum of products of identifiers, <<<<"a">>, <<"b", "X">>>>
\* standing for "a + b*X"; evaluated left to right in the locals.
Lookup(env, id) == IF id \in DOMAIN env THEN env[id] ELSE Raise("NameError")

RECURSIVE Product(_, _, _)
Product(env, term, k) ==
    IF k = 1 THEN Lookup(env, term[1])
    ELSE Mul(Product(env, term, k - 1), Lookup(env, term[k]))

RECURSIVE Eval(_, _, _)
Eval(env, formula, k) ==
    IF k = 1 THEN Product(env, formula[1], Len(formula[1]))
    ELSE Add(Eval(env, formula, k - 1), Product(env, formula[k], Len(formula[k])))

\* ------------------------------------------------------------ ScalingTheory
\* The ScalingTheory objects of a program run: their constructor arguments
\* (Norm is the class attribute, overloaded or not).
TheoryIds == {"t1", "t2", "t3", "t4", "t5", "t6"}
Poly1 == <<<<"a">>, <<"b", "X">>>>      \* "a + b*X"
Poly2 == <<<<"b">>, <<"c", "X">>>>      \* "b + c*X"
Poly3 == <<<<"c", "X">>>>               \* "c*X"
Poly4 == <<<<"a", "X">>, <<"b", "X">>, <<"c">>>>   \* "a*X + b*X + c"
TheoryArgs ==
    [t \in TheoryIds |->
       [Ytheory |-> CASE t \in {"t1", "t3"} -> Poly1 [] t = "t2" -> Poly2
                      [] t \in {"t4", "t5"} -> Poly3 [] OTHER -> Poly4,
        parameterNames |-> CASE t = "t1" -> <<"a", ",", "b">>
                             [] t = "t2" -> <<"b", ",", "c">>
                             [] t = "t3" -> <<"a", ",", " ", "b">>
                             [] t \in {"t4", "t5"} -> <<"c">>
                             [] OTHER -> <<"a", ",", "b", ",", "c">>,
        initialParameterValues |-> CASE t = "t1" -> <<1, 2>>
                                     [] t = "t2" -> <<3, 4>>
                                     [] t = "t3" -> <<1, 5>>
                                     [] t \in {"t4", "t5"} -> <<4>>
                                     [] OTHER -> <<1, 2, 3>>,
        independentNames |-> <<"R">>,
        scalingX |-> <<<<"X">>>>,
        scalingY |-> <<<<"Y">>>>,
        Xname |-> <<"X">>,
        Yname |-> <<"Y">>,
        normalize |-> t \in {"t5", "t6"},
        Norm |-> IF t = "t5" THEN "NormIntegerSum" ELSE "NormBasic"]]

\* ScalingTheory.__init__: the fields InstallModel later rebinds.  The two
\* lists are objects: a reference names the object's owner, "own" for the list
\* made by the constructor, a composite's id for that CompositeTheory's list.
NewTheory(t) ==
    [parameterNames |-> TheoryArgs[t].parameterNames,
     parameterNameList |-> "own",
     initialParameterValues |-> "own"]

\* the list a theory's parameterNameList / initialParameterValues refers to
NameListOf(t) ==
    IF theory[t].parameterNameList = "own"
    THEN split(TheoryArgs[t].parameterNames)
    ELSE composite[theory[t].parameterNameList].theory.parameterNameList
ValuesOf(t) ==
    IF theory[t].initialParameterValues = "own"
    THEN TheoryArgs[t].initialParameterValues
    ELSE composite[theory[t].initialParameterValues].theory.initialParameterValues

\* the three exec statements every ScalingTheory method starts with; the
\* locals hold the method's argument X before them.  thy holds the
\* ScalingTheory objects' fields (self is thy[t])
Bindings(thy, t, X, parameterValues, independentValues) ==
    LET e0 == [x \in {"X"} |-> X]
        e1 == Exec(e0, thy[t].parameterNames, parameterValues)
        e2 == Exec(e1.env, TheoryArgs[t].independentNames, independentValues)
        e3 == Exec(e2.env, TheoryArgs[t].Xname, e2.env["X"])
    IN  IF e1.exc # "" THEN e1 ELSE IF e2.exc # "" THEN e2 ELSE e3

\* NormBasic: Y / norm, norm the trapezoid estimate; kept as 2Y over 2norm
NormBasic(X, Yv) ==
    IF Yv.kind = "scalar" \/ Len(Yv.v) < 1 \/ Len(X.v) < 2
    THEN Raise("IndexError")
    ELSE LET n == Len(X.v)
             m == Len(Yv.v)
             inner == Mul(Array(SubSeq(Yv.v, 2, m - 1)),
                          Array([i \in 1..(n - 2) |-> X.v[i + 2] - X.v[i]]))
         IN  IF IsErr(inner) THEN inner
             ELSE [kind |-> "array",
                   v |-> [i \in 1..m |-> 2 * Yv.v[i]],
                   den |-> 2 * Yv.v[1] * (X.v[2] - X.v[1]) + SumSeq(inner.v)
                           + 2 * Yv.v[m] * (X.v[n] - X.v[n - 1])]

arange(lo, hi) == Array([i \in 1..(hi - lo) |-> lo + i - 1])

RECURSIVE Y(_, _, _, _, _, _)
RECURSIVE NormIntegerSum(_, _, _, _, _, _, _)

\* NormIntegerSum: Y / sum(self.Y(arange(xStart, xEnd), ...))
NormIntegerSum(thy, t, X, Yv, parameterValues, independentValues, depth) ==
    LET s == Y(thy, t, arange(xStart, xEnd), parameterValues, independentValues, depth + 1)
    IN  IF IsErr(s) THEN s
        ELSE IF s.kind = "scalar" THEN Raise("TypeError")
        ELSE [kind |-> Yv.kind,
              v |-> [i \in 1..Len(Yv.v) |-> Yv.v[i] * s.den],
              den |-> SumSeq(s.v)]

\* ScalingTheory.Y, entered with `depth` calls of Y already on the stack
Y(thy, t, X, parameterValues, independentValues, depth) ==
    IF depth >= RecursionLimit THEN Raise("RuntimeError")
    ELSE LET b == Bindings(thy, t, X, parameterValues, independentValues)
             raw == Eval(b.env, TheoryArgs[t].Ytheory, Len(TheoryArgs[t].Ytheory))
         IN  IF b.exc # "" THEN Raise(b.exc)
             ELSE IF IsErr(raw) THEN raw
             ELSE IF ~TheoryArgs[t].normalize THEN raw
             ELSE IF TheoryArgs[t].Norm = "NormBasic" THEN NormBasic(X, raw)
             ELSE NormIntegerSum(thy, t, X, raw, parameterValues, independentValues, depth)

ScaleX(thy, t, X, parameterValues, independentValues) ==
    LET b == Bindings(thy, t, X, parameterValues, independentValues)
    IN  IF b.exc # "" THEN Raise(b.exc)
        ELSE Eval(b.env, TheoryArgs[t].scalingX, Len(TheoryArgs[t].scalingX))

ScaleY(thy, t, X, Yv, parameterValues, independentValues) ==
    LET b == Bindings(thy, t, X, parameterValues, independentValues)
        e4 == Exec(Assign(b.env, "Y", Yv), TheoryArgs[t].Yname, Yv)
    IN  IF b.exc # "" THEN Raise(b.exc)
        ELSE IF e4.exc # "" THEN Raise(e4.exc)
        ELSE Eval(e4.env, TheoryArgs[t].scalingY, Len(TheoryArgs[t].scalingY))

\* --------------------------------------------------------------------- Data
DataIds == {"d1", "d2", "d3"}
\* the files InstallCurve can be pointed at: rows of (x, y, error); a name
\* outside the domain is a file that does not exist
FileSystem ==
    [f \in {"f1", "f2"} |->
       IF f = "f1" THEN <<<<1, 3, 1>>, <<2, 5, 2>>>> ELSE <<<<1, 4, 1>>>>]
FileNames == {"f1", "f2", "nofile"}
Independents == {<<1>>, <<2>>}
NoCurves == [k \in {} |-> <<>>]

\* Data.__init__
NewData ==
    [experiments |-> <<>>, X |-> NoCurves, Y |-> NoCurves, linlog |-> "log",
     pointType |-> NoCurves, errorBar |-> NoCurves, fileNames |-> NoCurves,
     defaultFractionalError |-> NoCurves, initialSkip |-> NoCurves]

\* dict[key] = value
Put(dict, key, value) ==
    [k \in DOMAIN dict \cup {key} |-> IF k = key THEN value ELSE dict[k]]

Column(rows, col) == [i \in 1..Len(rows) |-> rows[i][col + 1]]

\* Data.InstallCurve on the Data object dd; errorCol = -1 stands for None
InstallCurveOn(dd, independent, fileName, defaultFractionalError, errorCol, initialSkip) ==
    LET d1 == [dd EXCEPT
                 !.experiments = Append(@, independent),
                 !.fileNames = Put(@, independent, fileName),
                 !.initialSkip = Put(@, independent, initialSkip),
                 !.pointType = Put(@, independent, <<"b", "o">>),
                 !.defaultFractionalError = Put(@, independent, defaultFractionalError)]
        numbers == FileSystem[fileName]
        Ycol == Column(numbers, 1)
    IN  IF fileName \notin DOMAIN FileSystem
        THEN d1          \* IOError: "File ... not found" is printed
        ELSE [d1 EXCEPT
                 !.X = Put(@, independent, Column(numbers, 0)),
                 !.Y = Put(@, independent, Ycol),
                 !.errorBar = Put(@, independent,
                     IF errorCol # -1 THEN Column(numbers, errorCol)
                     ELSE [i \in 1..Len(Ycol) |-> Ycol[i] * defaultFractionalError])]

\* -------------------------------------------------------------------- Model
\* The Model objects of a program run: Model(theory, data, name)
ModelIds == {"M1", "M2", "M3", "M4", "M5"}
ModelArgs ==
    [m \in ModelIds |->
       [theory |-> CASE m \in {"M1", "M5"} -> "t1" [] m = "M2" -> "t2"
                     [] m = "M3" -> "t3" [] OTHER -> "t4",
        data |-> CASE m \in {"M1", "M3"} -> "d1" [] m \in {"M2", "M4"} -> "d2"
                   [] OTHER -> "d3",
        name |-> m]]

\* s[n:] for n >= 0
From(s, n) == SubSeq(s, n + 1, Len(s))

\* one pass of the loop of Model.Residual: list((Ytheory-Y)/errorBar) for the
\* curve of independentValues, each entry <<numerator, denominator>>
CurveResidual(thy, m, parameterValues, independentValues) ==
    LET d == data[ModelArgs[m].data]
    IN  IF independentValues \notin DOMAIN d.X
        THEN [exc |-> "KeyError", r |-> <<>>]
        ELSE LET initialSkip == d.initialSkip[independentValues]
                 X == Array(From(d.X[independentValues], initialSkip))
                 Yd == Array(From(d.Y[independentValues], initialSkip))
                 errorBar == Array(From(d.errorBar[independentValues], initialSkip))
                 Ytheory == Y(thy, ModelArgs[m].theory, X, parameterValues,
                              Array(independentValues), 0)
                 n == Shape(Array([i \in 1..Shape(Ytheory, Yd) |-> 0]), errorBar)
             IN  IF IsErr(Ytheory) THEN [exc |-> Ytheory.kind, r |-> <<>>]
                 ELSE IF Shape(Ytheory, Yd) < 0 \/ n < 0
                 THEN [exc |-> "ValueError", r |-> <<>>]
                 ELSE [exc |-> "",
                       r |-> [i \in 1..n |->
                                <<At(Ytheory, i) - At(Yd, i) * Ytheory.den,
                                  Ytheory.den * At(errorBar, i)>>]]

RECURSIVE ResidualLoopPrepend(_, _, _, _, _)
\* mutant of ResidualLoop: each curve's residuals are put in front of the
\* ones gathered so far (residuals = list(...) + residuals)
ResidualLoopPrepend(thy, m, parameterValues, k, residuals) ==
    LET experiments == data[ModelArgs[m].data].experiments
        one == CurveResidual(thy, m, parameterValues, experiments[k])
    IN  IF k > Len(experiments) THEN [exc |-> "", r |-> residuals]
        ELSE IF one.exc # "" THEN one
        ELSE ResidualLoopPrepend(thy, m, parameterValues, k + 1, one.r \o residuals)

RECURSIVE ResidualLoop(_, _, _, _, _)
\* the loop of Model.Residual from the k-th experiment on, residuals so far
ResidualLoop(thy, m, parameterValues, k, residuals) ==
    LET experiments == data[ModelArgs[m].data].experiments
        one == CurveResidual(thy, m, parameterValues, experiments[k])
    IN  IF k > Len(experiments) THEN [exc |-> "", r |-> residuals]
        ELSE IF one.exc # "" THEN one
        ELSE ResidualLoop(thy, m, parameterValues, k + 1, residuals \o one.r)

\* Model.Residual
Residual(m, parameterValues) == ResidualLoop(theory, m, parameterValues, 1, <<>>)

\* ----------------------------------------------------------- CompositeModel
Comps == {"A", "B"}
ModelNames == {"m1", "m2"}

\* CompositeModel.__init__ with its CompositeTheory.__init__
NewComposite(c) ==
    [Models |-> [n \in {} |-> "M1"],
     theory |-> [parameterNames |-> <<>>,
                 initialParameterValues |-> <<>>,
                 parameterNameList |-> <<>>],
     name |-> c]

\* dict.values(): the models in the interpreter's key order
RECURSIVE ValuesIn(_, _)
ValuesIn(Models, order) ==
    IF order = <<>> THEN <<>>
    ELSE (IF Head(order) \in DOMAIN Models THEN <<Models[Head(order)]>> ELSE <<>>)
         \o ValuesIn(Models, Tail(order))
Values(Models) == ValuesIn(Models, hashOrder)

\* zip(names, values): pairs up to the shorter list
Zip(names, values) ==
    [i \in 1..(IF Len(names) < Len(values) THEN Len(names) ELSE Len(values)) |->
       <<names[i], values[i]>>]

\* mutant of MergeParam: a shared name takes the new model's initial value
\* (last writer wins)
MergeParamLastWins(th, param, init, modelName) ==
    IF ~InList(th.parameterNameList, param)
    THEN [th |-> [parameterNameList |-> Append(th.parameterNameList, param),
                  parameterNames |-> IF Len(th.parameterNames) = 0
                                     THEN th.parameterNames \o param
                                     ELSE th.parameterNames \o <<",">> \o param,
                  initialParameterValues |-> Append(th.initialParameterValues, init)],
          out |-> <<>>]
    ELSE LET paramCurrentIndex == IndexOf(th.parameterNameList, param)
             paramCurrentInitialValue == th.initialParameterValues[paramCurrentIndex]
         IN  [th |-> [th EXCEPT !.initialParameterValues[paramCurrentIndex] = init],
              out |-> IF paramCurrentInitialValue # init
                      THEN <<[param |-> param, init |-> init, model |-> modelName,
                              stored |-> paramCurrentInitialValue]>>
                      ELSE <<>>]

\* mutant of MergeParam: a new name is put in front of the lists
\* (insert(0, ...) for append)
MergeParamPrepend(th, param, init, modelName) ==
    IF ~InList(th.parameterNameList, param)
    THEN [th |-> [parameterNameList |-> <<param>> \o th.parameterNameList,
                  parameterNames |-> IF Len(th.parameterNames) = 0
                                     THEN th.parameterNames \o param
                                     ELSE param \o <<",">> \o th.parameterNames,
                  initialParameterValues |-> <<init>> \o th.initialParameterValues],
          out |-> <<>>]
    ELSE LET paramCurrentIndex == IndexOf(th.parameterNameList, param)
             paramCurrentInitialValue == th.initialParameterValues[paramCurrentIndex]
         IN  [th |-> th,
              out |-> IF paramCurrentInitialValue # init
                      THEN <<[param |-> param, init |-> init, model |-> modelName,
                              stored |-> paramCurrentInitialValue]>>
                      ELSE <<>>]

\* the body of InstallModel's first loop for one (param, init): the
\* CompositeTheory after it and the lines printed, as [th, out]
MergeParam(th, param, init, modelName) ==
    IF ~InList(th.parameterNameList, param)
    THEN [th |-> [parameterNameList |-> Append(th.parameterNameList, param),
                  parameterNames |-> IF Len(th.parameterNames) = 0
                                     THEN th.parameterNames \o param
                                     ELSE th.parameterNames \o <<",">> \o param,
                  initialParameterValues |-> Append(th.initialParameterValues, init)],
          out |-> <<>>]
    ELSE LET paramCurrentIndex == IndexOf(th.parameterNameList, param)
             paramCurrentInitialValue == th.initialParameterValues[paramCurrentIndex]
         IN  [th |-> th,
              out |-> IF paramCurrentInitialValue # init
                      THEN <<[param |-> param, init |-> init, model |-> modelName,
                              stored |-> paramCurrentInitialValue]>>
                      ELSE <<>>]

RECURSIVE MergeBreakOnShared(_, _, _, _, _)
\* mutant of Merge: the loop ends at the first name the composite already
\* holds (a break where the loop should go on)
MergeBreakOnShared(th, pairs, modelName, k, out) ==
    IF k > Len(pairs) \/ InList(th.parameterNameList, pairs[k][1])
    THEN [th |-> th, out |-> out]
    ELSE LET step == MergeParam(th, pairs[k][1], pairs[k][2], modelName)
         IN  MergeBreakOnShared(step.th, pairs, modelName, k + 1, out \o step.out)

RECURSIVE Merge(_, _, _, _, _)
\* InstallModel's first loop over the zipped pairs from the k-th on
Merge(th, pairs, modelName, k, out) ==
    IF k > Len(pairs) THEN [th |-> th, out |-> out]
    ELSE LET step == MergeParam(th, pairs[k][1], pairs[k][2], modelName)
         IN  Merge(step.th, pairs, modelName, k + 1, out \o step.out)

\* mutant of Unify: only the names string is rebound, the two lists are left
\* as they were
UnifyNamesOnly(thy, c, Models, th) ==
    [t \in TheoryIds |->
       IF \E n \in DOMAIN Models : ModelArgs[Models[n]].theory = t
       THEN [thy[t] EXCEPT !.parameterNames = th.parameterNames]
       ELSE thy[t]]

\* InstallModel's second loop: the theories of the models in Models are bound
\* to the CompositeTheory's string and to its two list objects
Unify(thy, c, Models, th) ==
    [t \in TheoryIds |->
       IF \E n \in DOMAIN Models : ModelArgs[Models[n]].theory = t
       THEN [parameterNames |-> th.parameterNames,
             parameterNameList |-> c,
             initialParameterValues |-> c]
       ELSE thy[t]]

RECURSIVE CompositeLoop(_, _, _, _)
\* the loop of CompositeModel.Residual over Models.values() from the k-th on
CompositeLoop(models, parameterValues, k, residuals) ==
    LET modelResidual == Residual(models[k], parameterValues)
    IN  IF k > Len(models) THEN [exc |-> "", r |-> residuals]
        ELSE IF modelResidual.exc # "" THEN modelResidual
        ELSE CompositeLoop(models, parameterValues, k + 1, residuals \o modelResidual.r)

\* CompositeModel.Residual
CompositeResidual(c, parameterValues) ==
    CompositeLoop(Values(composite[c].Models), parameterValues, 1, <<>>)

\* ------------------------------------------------------------------ actions
\* CompositeModel.InstallModel(modelName, model) on composite c
InstallModel(c, modelName, model) ==
    LET t == ModelArgs[model].theory
        Models1 == Put(composite[c].Models, modelName, model)
        merged == Merge(composite[c].theory, Zip(NameListOf(t), ValuesOf(t)),
                        modelName, 1, <<>>)
    IN  /\ Len(installLog) < MaxInstalls
        /\ composite' = [composite EXCEPT ![c] =
                            [Models |-> Models1, theory |-> merged.th, name |-> @.name]]
        /\ theory' = Unify(theory, c, Models1, merged.th)
        /\ stdout' = merged.out
        /\ installLog' = Append(installLog, [comp |-> c, name |-> modelName, model |-> model])
        /\ UNCHANGED <<hashOrder, data, call>>

\* Data.InstallCurve(independent, fileName, ...) on Data object d
InstallCurve(d, independent, fileName, defaultFractionalError, errorCol, initialSkip) ==
    /\ Len(data[d].experiments) < MaxCurves
    /\ data' = [data EXCEPT ![d] = InstallCurveOn(@, independent, fileName,
                                       defaultFractionalError, errorCol, initialSkip)]
    /\ UNCHANGED <<theory, composite, hashOrder, installLog, stdout, call>>

\* a ScalingTheory method called from outside: Y, ScaleX or ScaleY
CallTheory ==
    /\ ~call.done
    /\ call' = [call EXCEPT
                  !.done = TRUE,
                  !.result =
                     CASE call.op = "Y" ->
                            Y(theory, call.t, Array(call.X), Array(call.p), Array(call.iv), 0)
                       [] call.op = "ScaleX" ->
                            ScaleX(theory, call.t, Array(call.X), Array(call.p), Array(call.iv))
                       [] OTHER ->
                            ScaleY(theory, call.t, Array(call.X), Array(call.Yv),
                                   Array(call.p), Array(call.iv))]
    /\ UNCHANGED <<theory, composite, hashOrder, installLog, stdout, data>>

\* ------------------------------------------------------------ specifications
ParamVectors(n) == [1..n -> 1..MaxP]
Orders == {o \in [1..Cardinality(ModelNames) -> ModelNames] :
             \A i, j \in DOMAIN o : o[i] = o[j] => i = j}
NoCall == [op |-> "none", t |-> "t1", X |-> <<>>, Yv |-> <<>>, p |-> <<>>,
           iv |-> <<>>, done |-> TRUE, result |-> Raise("none")]

\* the curves the program installed in its Data objects before the composite
\* is built
LoadedData ==
    [d \in DataIds |->
       CASE d = "d1" -> InstallCurveOn(NewData, <<1>>, "f1", 2, 2, 0)
         [] d = "d2" -> InstallCurveOn(InstallCurveOn(NewData, <<1>>, "f2", 2, 2, 0),
                                        <<2>>, "f1", 2, 2, 1)
         [] OTHER -> InstallCurveOn(NewData, <<2>>, "f1", 2, -1, 0)]

\* Composite fits: theories, models and data are constructed, the composites
\* are empty; the program then installs models into composite A.
Init ==
    /\ theory = [t \in TheoryIds |-> NewTheory(t)]
    /\ composite = [c \in Comps |-> NewComposite(c)]
    /\ hashOrder \in Orders
    /\ installLog = <<>>
    /\ stdout = <<>>
    /\ data = LoadedData
    /\ call = NoCall

Next == \E modelName \in ModelNames, model \in ModelIds : InstallModel("A", modelName, model)

Spec == Init /\ [][Next]_vars

\* Loading data: a Data object is constructed and curves are installed.
InitData ==
    /\ theory = [t \in TheoryIds |-> NewTheory(t)]
    /\ composite = [c \in Comps |-> NewComposite(c)]
    /\ hashOrder = <<"m1", "m2">>
    /\ installLog = <<>>
    /\ stdout = <<>>
    /\ data = [d \in DataIds |-> NewData]
    /\ call = NoCall

NextData ==
    \E independent \in Independents, fileName \in FileNames,
       errorCol \in {2, -1}, initialSkip \in 0..MaxSkip :
        InstallCurve("d1", independent, fileName, 2, errorCol, initialSkip)

SpecData == InitData /\ [][NextData]_vars

\* Calls of the ScalingTheory methods on freshly constructed theories, with
\* arguments of every length up to MaxArgLen.
Xs == {<<2>>, <<1, 2>>, <<1, 2, 4>>}
InitTheory ==
    /\ theory = [t \in TheoryIds |-> NewTheory(t)]
    /\ composite = [c \in Comps |-> NewComposite(c)]
    /\ hashOrder = <<"m1", "m2">>
    /\ installLog = <<>>
    /\ stdout = <<>>
    /\ data = LoadedData
    /\ \E op \in {"Y", "ScaleX", "ScaleY"}, t \in TheoryIds, X \in Xs,
          n \in 0..MaxArgLen, iv \in Independents :
         \E p \in ParamVectors(n) :
            call = [op |-> op, t |-> t, X |-> X,
                    Yv |-> IF op = "ScaleY" THEN [i \in 1..Len(X) |-> 3 * X[i]] ELSE <<>>,
                    p |-> p, iv |-> iv, done |-> FALSE, result |-> Raise("none")]

NextTheory == CallTheory

SpecTheory == InitTheory /\ [][NextTheory]_vars

\* Two composite fits built over the same pool of models: M1 and M5 share the
\* theory object t1, M2 has a theory of its own, and either composite may be
\* handed any of them, in any interleaving.
SharedModels == {"M1", "M2", "M5"}
NextTwo ==
    \E c \in Comps, modelName \in ModelNames, model \in SharedModels :
        InstallModel(c, modelName, model)

SpecTwo == Init /\ [][NextTwo]_vars

\* ---------------------------------------------------------------- properties
IsPrefix(s, t) == Len(s) <= Len(t) /\ SubSeq(t, 1, Len(s)) = s
NoDuplicates(s) == \A i, j \in 1..Len(s) : s[i] = s[j] => i = j
Installed(c) == composite[c].Models
TheoryOf(m) == ModelArgs[m].theory
\* the names and initial values a model's theory was constructed with
Declared(m) == split(TheoryArgs[TheoryOf(m)].parameterNames)
DeclaredValues(m) == TheoryArgs[TheoryOf(m)].initialParameterValues
\* an InstallModel call is the step taken
Installs == Len(installLog') = Len(installLog) + 1
LastCall == installLog[Len(installLog)]
\* every model held by composite c has c's names string, name list and values
Unified(c) ==
    \A n \in DOMAIN Installed(c) :
        /\ theory[TheoryOf(Installed(c)[n])].parameterNames
             = composite[c].theory.parameterNames
        /\ NameListOf(TheoryOf(Installed(c)[n])) = composite[c].theory.parameterNameList
        /\ ValuesOf(TheoryOf(Installed(c)[n])) = composite[c].theory.initialParameterValues

\* C1: after every InstallModel call on a composite, every model the composite
\* holds has a theory whose parameterNames, parameterNameList and
\* initialParameterValues are the composite theory's own.
C1_Unified == installLog # <<>> => Unified(LastCall.comp)

\* C1 witness: two models with different theories are held after a call that
\* grew the composite beyond what the first of them declared.
C1_Witness ==
    /\ Len(installLog) >= 2
    /\ \E n1, n2 \in DOMAIN Installed("A") :
          /\ TheoryOf(Installed("A")[n1]) # TheoryOf(Installed("A")[n2])
          /\ Len(composite["A"].theory.parameterNameList) > Len(Declared(Installed("A")[n1]))

\* C2: for every installed model and every p of the composite's length, the
\* theory binds each name the model declared to the entry of p at that name's
\* position in the composite's name list, and the model's Residual under p is
\* the Residual it gave before installation for p projected onto its own names.
C2_BoundByName ==
    \A n \in DOMAIN Installed("A") :
      \A p \in ParamVectors(Len(composite["A"].theory.parameterNameList)) :
        LET m == Installed("A")[n]
            list == composite["A"].theory.parameterNameList
            b == Bindings(theory, TheoryOf(m), Array(<<1, 2>>), Array(p), Array(<<1>>))
            own == [i \in 1..Len(Declared(m)) |-> p[IndexOf(list, Declared(m)[i])]]
            fresh == [t \in TheoryIds |-> NewTheory(t)]
        IN  /\ b.exc = ""
            /\ \A i \in 1..Len(Declared(m)) :
                  b.env[strip(Declared(m)[i])[1]].v = <<own[i]>>
            /\ Residual(m, Array(p)) = ResidualLoop(fresh, m, Array(own), 1, <<>>)

\* C3: CompositeModel.Residual(p) is the concatenation of the sub-models'
\* Residual(p) in the order in which the models were installed.
C3_InsertionOrder ==
    (\A i, j \in 1..Len(installLog) : installLog[i].name = installLog[j].name => i = j)
    => \A p \in ParamVectors(Len(composite["A"].theory.parameterNameList)) :
          CompositeResidual("A", Array(p))
            = CompositeLoop([i \in 1..Len(installLog) |-> installLog[i].model],
                            Array(p), 1, <<>>)

\* C4: installing a model that declares a name already in the composite with a
\* different initial value leaves the stored value unchanged, reports the
\* conflict, and still installs the model and unifies all sub-models.
C4_FirstWriterWins ==
    [][Installs =>
         \A c \in {x \in Comps : x = installLog'[Len(installLog')].comp} :
         LET name == installLog'[Len(installLog')].name
             m == installLog'[Len(installLog')].model
             old == composite[c].theory
             new == composite'[c].theory
             pairs == Zip(NameListOf(TheoryOf(m)), ValuesOf(TheoryOf(m)))
         IN  \A k \in 1..Len(pairs) :
               (InList(old.parameterNameList, pairs[k][1])
                /\ old.initialParameterValues[IndexOf(old.parameterNameList, pairs[k][1])]
                     # pairs[k][2])
               => LET i == IndexOf(old.parameterNameList, pairs[k][1])
                  IN  /\ new.parameterNameList[i] = pairs[k][1]
                      /\ new.initialParameterValues[i] = old.initialParameterValues[i]
                      /\ \E j \in 1..Len(stdout') :
                            /\ stdout'[j].param = pairs[k][1]
                            /\ stdout'[j].init = pairs[k][2]
                            /\ stdout'[j].stored = old.initialParameterValues[i]
                      /\ composite'[c].Models[name] = m
                      /\ Unified(c)'
    ]_vars

\* C4 witness: the last call reported a conflict and the model is installed.
C4_Witness ==
    /\ stdout # <<>>
    /\ Installed(LastCall.comp)[LastCall.name] = LastCall.model

\* the entries of `declared` (with their values) that `list` does not hold yet
RECURSIVE NewEntries(_, _, _)
NewEntries(pairs, list, k) ==
    IF k > Len(pairs) THEN <<>>
    ELSE (IF InList(list, pairs[k][1])
             \/ \E j \in 1..(k - 1) : pairs[j][1] = pairs[k][1]
          THEN <<>> ELSE <<pairs[k]>>)
         \o NewEntries(pairs, list, k + 1)

\* C5: across any InstallModel call the composite's name list and value list
\* before the call are prefixes of the lists after it, the new names are
\* appended in the installed theory's declared order, and no name occurs twice.
C5_OnlyGrows ==
    [][Installs =>
         LET c == installLog'[Len(installLog')].comp
             m == installLog'[Len(installLog')].model
             old == composite[c].theory
             new == composite'[c].theory
             added == NewEntries(Zip(NameListOf(TheoryOf(m)), ValuesOf(TheoryOf(m))),
                                 old.parameterNameList, 1)
         IN  /\ IsPrefix(old.parameterNameList, new.parameterNameList)
             /\ IsPrefix(old.initialParameterValues, new.initialParameterValues)
             /\ new.parameterNameList
                  = old.parameterNameList \o [i \in 1..Len(added) |-> added[i][1]]
             /\ new.initialParameterValues
                  = old.initialParameterValues \o [i \in 1..Len(added) |-> added[i][2]]
             /\ NoDuplicates(new.parameterNameList)
    ]_vars

\* C5 witness: a call on a composite that already held names appended new
\* ones after them and met a name it already held.
C5_Witness ==
    /\ Len(installLog) >= 2
    /\ Len(composite["A"].theory.parameterNameList) > Len(Declared(installLog[1].model))
    /\ \E i \in 1..Len(Declared(LastCall.model)) :
          InList(Declared(installLog[1].model), Declared(LastCall.model)[i])

\* C6: every InstallModel call takes a composite holding n models to one
\* holding n+1 models and removes no previously installed model, whatever the
\* model name, one already used included.
C6_NeverRemoves ==
    [][Installs =>
         LET c == installLog'[Len(installLog')].comp
         IN  /\ Cardinality(DOMAIN composite'[c].Models)
                  = Cardinality(DOMAIN composite[c].Models) + 1
             /\ \A n \in DOMAIN composite[c].Models :
                   /\ n \in DOMAIN composite'[c].Models
                   /\ composite'[c].Models[n] = composite[c].Models[n]
    ]_vars

\* the samples of the k-th experiment of Data object d that are fitted
Kept(d, k) ==
    LET iv == data[d].experiments[k]
    IN  IF Len(data[d].X[iv]) > data[d].initialSkip[iv]
        THEN Len(data[d].X[iv]) - data[d].initialSkip[iv] ELSE 0
RECURSIVE KeptBefore(_, _)
KeptBefore(d, k) == IF k = 1 THEN 0 ELSE KeptBefore(d, k - 1) + Kept(d, k - 1)
RECURSIVE LengthMinusSkip(_, _)
\* the sum over the first k experiments of (curve length - initialSkip)
LengthMinusSkip(d, k) ==
    IF k = 0 THEN 0
    ELSE LengthMinusSkip(d, k - 1)
         + Len(data[d].X[data[d].experiments[k]])
         - data[d].initialSkip[data[d].experiments[k]]

\* the j-th fitted sample of the k-th experiment sits at its place in r: the
\* theory at that sample of the curve, minus its Y, over its error bar
SampleInPlace(m, p, r, k, j) ==
    LET d == ModelArgs[m].data
        iv == data[d].experiments[k]
        s == data[d].initialSkip[iv] + j
        whole == Y(theory, TheoryOf(m), Array(data[d].X[iv]), Array(p), Array(iv), 0)
    IN  /\ KeptBefore(d, k) + j <= Len(r)
        /\ r[KeptBefore(d, k) + j]
             = <<whole.v[s] - data[d].Y[iv][s], data[d].errorBar[iv][s]>>

RawY(t, X, p, iv) ==
    Eval(Bindings(theory, t, X, p, iv).env, TheoryArgs[t].Ytheory,
         Len(TheoryArgs[t].Ytheory))

\* C8: with normalize on and NormIntegerSum as the theory's Norm, Y returns
\* the formula's values at X divided by the sum of the formula over the
\* integers of [xStart, xEnd).
C8_IntegerSum ==
    (/\ call.done /\ call.op = "Y"
     /\ TheoryArgs[call.t].normalize
     /\ TheoryArgs[call.t].Norm = "NormIntegerSum"
     /\ Len(call.p) = Len(split(theory[call.t].parameterNames)))
    => call.result
         = [kind |-> "array",
            v |-> RawY(call.t, Array(call.X), Array(call.p), Array(call.iv)).v,
            den |-> SumSeq(RawY(call.t, arange(xStart, xEnd),
                                Array(call.p), Array(call.iv)).v)]

\* C9: Y, ScaleX or ScaleY called with parameterValues whose length differs
\* from the number of the theory's parameter names fails with an error.
C9_ShapeError ==
    (/\ call.done /\ call.op \in {"Y", "ScaleX", "ScaleY"}
     /\ Len(call.p) # Len(split(theory[call.t].parameterNames)))
    => IsErr(call.result)

\* the first call of the log that installed a model declaring `param`
FirstDeclaring(param) ==
    CHOOSE k \in 1..Len(installLog) :
        /\ InList(Declared(installLog[k].model), param)
        /\ \A j \in 1..(k - 1) : ~InList(Declared(installLog[j].model), param)

\* C10: the composite's set of names is the union of the names the installed
\* models declared, whatever the order of the calls, and the value kept for a
\* name is the initial value of the model installed first among those
\* declaring it.
C10_OrderIndependent ==
    LET th == composite["A"].theory
    IN  /\ ToSet(th.parameterNameList)
             = UNION {ToSet(Declared(installLog[k].model)) : k \in 1..Len(installLog)}
        /\ Len(th.initialParameterValues) = Len(th.parameterNameList)
        /\ \A i \in 1..Len(th.parameterNameList) :
              LET first == installLog[FirstDeclaring(th.parameterNameList[i])].model
              IN  th.initialParameterValues[i]
                    = DeclaredValues(first)[IndexOf(Declared(first), th.parameterNameList[i])]

\* C10 witness: M2 (b = 3) was installed before M1 (b = 2), a third name came
\* with neither of the two first, and b kept M2's value.
C10_Witness ==
    /\ Len(installLog) >= 2
    /\ installLog[1].model = "M2"
    /\ installLog[2].model = "M1"
    /\ composite["A"].theory.parameterNameList = <<<<"b">>, <<"c">>, <<"a">>>>
    /\ composite["A"].theory.initialParameterValues = <<3, 4, 1>>

\* the composite theory's own ParameterSpace: names string, name list, values
ParameterSpace(c) == composite[c].theory

\* C11: an InstallModel call on one composite leaves every other composite
\* consistent: after the call every model held by any composite still has a
\* theory whose parameter names and initial values are that composite's own
\* ParameterSpace, and the ParameterSpace of every composite other than the
\* one called is unchanged.
C11_OthersConsistent ==
    [][Installs =>
         \A c \in Comps :
            /\ Unified(c)'
            /\ installLog'[Len(installLog')].comp # c
                  => ParameterSpace(c)' = ParameterSpace(c)]_vars
====
